---- MODULE Spec2Model ----
(***************************************************************************)
(* SPI NOR flash command encoding (commands/mod.rs, commands/spansion.rs). *)
(*                                                                         *)
(* The crate is a set of pure functions.  The state of the model is the    *)
(* input of each function together with the outcome of the call, where an  *)
(* outcome is "none" (not called yet), "ok" (the function returned) or     *)
(* "panic" (the function reached todo!() and unwound).                     *)
(*                                                                         *)
(* A u32 is held as two 16-bit limbs [hi, lo] with value hi * 2^16 + lo,   *)
(* so that all arithmetic stays below 2^31.                                *)
(***************************************************************************)
EXTENDS Naturals, Sequences, FiniteSets

VARIABLES cmd, frame, length, le, decoded, ops, u8s

vars == <<cmd, frame, length, le, decoded, ops, u8s>>

(***************************************************************************)
(* Bounds                                                                  *)
(***************************************************************************)
\* Number of generated u32 sample addresses is MaxAddrIdx + 1.
MaxAddrIdx == 5

(***************************************************************************)
(* u32 values                                                              *)
(***************************************************************************)
U32(h, l) == [hi |-> h, lo |-> l]

\* u32::to_le_bytes as used in Address24Bits::to_le_bytes: the four bytes,
\* least significant first.
u32_to_le_bytes(v) ==
    <<v.lo % 256, (v.lo \div 256) % 256, v.hi % 256, (v.hi \div 256) % 256>>

\* to_le_bytes with the pattern shifted by one: [_, lsb, csb, msb].
to_le_bytes_shifted(a) ==
    LET b == u32_to_le_bytes(a)
    IN  <<b[2], b[3], b[4]>>

\* Address24Bits::to_le_bytes: destructure the four bytes, keep the low three.
to_le_bytes(a) ==
    LET b == u32_to_le_bytes(a)
        lsb == b[1]
        csb == b[2]
        msb == b[3]
    IN  <<lsb, csb, msb>>

\* The i-th generated sample: hi = i * 0x9E37, lo = i * 0xBEEF (mod 2^16).
SampleAddr(i) == U32((i * 40503) % 65536, (i * 48879) % 65536)

\* Sample u32 addresses: generated ones plus hand-picked ones
\* (0x00ABCDEF, 0x12ABCDEF, 0x00010203, 0x00000100, 0xFFFFFFFF).
AddrSamples ==
    {SampleAddr(i) : i \in 0..MaxAddrIdx}
        \cup {U32(171, 52719), U32(4779, 52719), U32(1, 515), U32(0, 256),
              U32(65535, 65535)}

(***************************************************************************)
(* CommandOpCode                                                           *)
(***************************************************************************)
\* enum CommandOpCode with its #[repr(u8)] discriminants.
CommandOpCodeValue ==
    [ WriteEnable |-> 6, WriteDisable |-> 4, ReadData |-> 3, PageProgram |-> 2,
      ReadStatusRegister1 |-> 5, WriteStatusRegister1 |-> 1,
      ReadJEDECID |-> 159, FastRead |-> 11, Powerdown |-> 185,
      ReleasePowerdown |-> 171, ReadDeviceID |-> 144, ChipErase |-> 199,
      ReadUniqueID |-> 75, ReadSFDPRegister |-> 90, ReadStatusRegister2 |-> 53,
      ReadStatusRegister3 |-> 21, ReadFlagStatusRegister |-> 112,
      WriteStatusRegister2 |-> 49, WriteStatusRegister3 |-> 17,
      WriteEnableVolatile |-> 80, EnableReset |-> 102, Reset |-> 153,
      SoftwareReset |-> 240, ProgramSuspend |-> 117, ProgramResume |-> 122,
      SectorErase |-> 32, BlockErase1 |-> 82, BlockErase2 |-> 216,
      EraseSecurityRegisters |-> 68, ProgramSecurityRegisters |-> 66,
      ReadSecurityRegisters |-> 72, IndividualBlockLock |-> 54,
      IndividualBlockUnlock |-> 57, ReadBlockLock |-> 61,
      GlobalBlockLock |-> 126, GlobalBlockUnlock |-> 152,
      ReadDualOut |-> 59, ReadDualIO |-> 187,
      ReadQuadOut |-> 107, ReadQuadIO |-> 235 ]

\* The variants of CommandOpCode.
CommandOpCode == DOMAIN CommandOpCodeValue

\* A table in which ReadDualIO was typed 0xAB instead of 0xBB.
u8_from_typo(c) == IF c = "ReadDualIO" THEN 171 ELSE CommandOpCodeValue[c]

\* u8::from(CommandOpCode), derived by num_enum::IntoPrimitive.
u8_from(c) == CommandOpCodeValue[c]

(***************************************************************************)
(* Command                                                                 *)
(***************************************************************************)
\* Variants of Command declared without a payload.
NoPayloadVariants ==
    { "ReadDeviceID", "ReadJEDECID", "ReleasePowerdown", "ReadStatusRegister1",
      "WriteEnable", "WriteDisable", "WriteStatusRegister1", "Powerdown",
      "ChipErase", "ReadUniqueID", "ReadStatusRegister2", "ReadStatusRegister3",
      "ReadFlagStatusRegister", "WriteStatusRegister2", "WriteStatusRegister3",
      "WriteEnableVolatile", "EnableReset", "Reset" }

\* Variants of Command declared with an Address24Bits payload.
AddressVariants ==
    { "ReadData", "PageProgram", "FastRead", "ReadSFDPRegister",
      "ReadDualOut", "ReadQuadOut", "ReadDualIO", "ReadQuadIO" }

\* The values of enum Command (addresses drawn from the samples).
Command ==
    {[variant |-> v] : v \in NoPayloadVariants}
        \cup {[variant |-> v, addr |-> a] : v \in AddressVariants, a \in AddrSamples}

HasAddr(c) == c.variant \in AddressVariants

\* Outcomes of a call.
NotCalled == [kind |-> "none"]
Panic == [kind |-> "panic"]
Ok(v) == [kind |-> "ok", val |-> v]


\* either::Either and Option.
Left(x) == [tag |-> "Left", val |-> x]
Right(x) == [tag |-> "Right", val |-> x]
None == [tag |-> "None"]
Some(x) == [tag |-> "Some", val |-> x]
\* The `_ => todo!()` arm.
Todo == [tag |-> "todo"]

\* The match of to_array with the FastRead arm pasted from the ReadData arm.
to_array_match_pasted(c) ==
    CASE c.variant = "ReadStatusRegister1" -> Left("ReadStatusRegister1")
      [] c.variant = "WriteStatusRegister1" -> Left("WriteStatusRegister1")
      [] c.variant = "ReadUniqueID" -> Left("ReadUniqueID")
      [] c.variant = "ReadJEDECID" -> Left("ReadJEDECID")
      [] c.variant = "ReadSFDPRegister" -> Right(<<"ReadSFDPRegister", c.addr>>)
      [] c.variant = "ReadStatusRegister2" -> Left("ReadStatusRegister2")
      [] c.variant = "ReadStatusRegister3" -> Left("ReadStatusRegister3")
      [] c.variant = "WriteStatusRegister2" -> Left("WriteStatusRegister2")
      [] c.variant = "WriteStatusRegister3" -> Left("WriteStatusRegister3")
      [] c.variant = "WriteEnableVolatile" -> Left("WriteEnableVolatile")
      [] c.variant = "WriteEnable" -> Left("WriteEnable")
      [] c.variant = "WriteDisable" -> Left("WriteDisable")
      [] c.variant = "FastRead" -> Right(<<"ReadData", c.addr>>)
      [] c.variant = "PageProgram" -> Right(<<"PageProgram", c.addr>>)
      [] c.variant = "ReadData" -> Right(<<"ReadData", c.addr>>)
      [] c.variant = "ReadDualOut" -> Right(<<"ReadDualOut", c.addr>>)
      [] c.variant = "ReadQuadOut" -> Right(<<"ReadQuadOut", c.addr>>)
      [] c.variant = "ReadDualIO" -> Right(<<"ReadDualIO", c.addr>>)
      [] c.variant = "ReadQuadIO" -> Right(<<"ReadQuadIO", c.addr>>)
      [] OTHER -> Todo

\* The match of Command::to_array: Left(opcode) for a command without payload,
\* Right((opcode, addr)) for one with an address, todo!() for the rest.
to_array_match(c) ==
    CASE c.variant = "ReadStatusRegister1" -> Left("ReadStatusRegister1")
      [] c.variant = "WriteStatusRegister1" -> Left("WriteStatusRegister1")
      [] c.variant = "ReadUniqueID" -> Left("ReadUniqueID")
      [] c.variant = "ReadJEDECID" -> Left("ReadJEDECID")
      [] c.variant = "ReadSFDPRegister" -> Right(<<"ReadSFDPRegister", c.addr>>)
      [] c.variant = "ReadStatusRegister2" -> Left("ReadStatusRegister2")
      [] c.variant = "ReadStatusRegister3" -> Left("ReadStatusRegister3")
      [] c.variant = "WriteStatusRegister2" -> Left("WriteStatusRegister2")
      [] c.variant = "WriteStatusRegister3" -> Left("WriteStatusRegister3")
      [] c.variant = "WriteEnableVolatile" -> Left("WriteEnableVolatile")
      [] c.variant = "WriteEnable" -> Left("WriteEnable")
      [] c.variant = "WriteDisable" -> Left("WriteDisable")
      [] c.variant = "FastRead" -> Right(<<"FastRead", c.addr>>)
      [] c.variant = "PageProgram" -> Right(<<"PageProgram", c.addr>>)
      [] c.variant = "ReadData" -> Right(<<"ReadData", c.addr>>)
      [] c.variant = "ReadDualOut" -> Right(<<"ReadDualOut", c.addr>>)
      [] c.variant = "ReadQuadOut" -> Right(<<"ReadQuadOut", c.addr>>)
      [] c.variant = "ReadDualIO" -> Right(<<"ReadDualIO", c.addr>>)
      [] c.variant = "ReadQuadIO" -> Right(<<"ReadQuadIO", c.addr>>)
      [] OTHER -> Todo

\* to_array with the chain reversed: the address bytes before the opcode.
to_array_addr_first(c) ==
    LET m == to_array_match(c)
    IN  CASE m.tag = "todo" -> Panic
          [] m.tag = "Left" -> Ok(<<u8_from(m.val)>>)
          [] m.tag = "Right" -> Ok(to_le_bytes(m.val[2]) \o <<u8_from(m.val[1])>>)

\* Command::to_array: the match, then map_left (the opcode byte alone) or
\* map_right (the opcode byte chained with the address bytes), collected.
to_array(c) ==
    LET m == to_array_match(c)
    IN  CASE m.tag = "todo" -> Panic
          [] m.tag = "Left" -> Ok(<<u8_from(m.val)>>)
          [] m.tag = "Right" -> Ok(<<u8_from(m.val[1])>> \o to_le_bytes(m.val[2]))

\* len with 3 (the address alone) for the address-carrying arms.
len_addr_only(c) ==
    CASE c.variant \in {"ReadUniqueID", "ReadJEDECID", "ReadStatusRegister1",
                        "ReadStatusRegister2", "ReadStatusRegister3",
                        "WriteEnable", "WriteDisable"} -> Ok(1)
      [] c.variant \in {"PageProgram", "ReadData", "ReadDualOut", "ReadQuadOut",
                        "ReadDualIO", "ReadQuadIO"} -> Ok(3)
      [] OTHER -> Panic

\* Command::len.
len(c) ==
    CASE c.variant = "ReadUniqueID" -> Ok(1)
      [] c.variant = "ReadJEDECID" -> Ok(1)
      [] c.variant = "ReadStatusRegister1" -> Ok(1)
      [] c.variant = "ReadStatusRegister2" -> Ok(1)
      [] c.variant = "ReadStatusRegister3" -> Ok(1)
      [] c.variant = "WriteEnable" -> Ok(1)
      [] c.variant = "WriteDisable" -> Ok(1)
      [] c.variant = "PageProgram" -> Ok(4)
      [] c.variant = "ReadData" -> Ok(4)
      [] c.variant = "ReadDualOut" -> Ok(4)
      [] c.variant = "ReadQuadOut" -> Ok(4)
      [] c.variant = "ReadDualIO" -> Ok(4)
      [] c.variant = "ReadQuadIO" -> Ok(4)
      [] OTHER -> Panic

\* Command::try_from_byte: the body is todo!().
try_from_byte(op_code, addr) == Panic

(***************************************************************************)
(* Inputs                                                                  *)
(***************************************************************************)
\* Opcode bytes handed to try_from_byte: every byte of the table, and two
\* bytes (0x00, 0xFF) that are in no row of it.
OpCodeInputs == {CommandOpCodeValue[o] : o \in CommandOpCode} \cup {0, 255}

\* Address arguments handed to try_from_byte beside command c: none, or a
\* 24-bit (Left) or 32-bit (Right) address, c's own or 0x00ABCDEF.
AddrInputs(c) ==
    {None}
        \cup {Some(Left(a)) : a \in {U32(171, 52719)} \cup (IF HasAddr(c) THEN {c.addr} ELSE {})}
        \cup {Some(Right(a)) : a \in {U32(171, 52719)} \cup (IF HasAddr(c) THEN {c.addr} ELSE {})}

\* The two operands of an opcode comparison.
Slots == {1, 2}

IdleCmd == [variant |-> "WriteEnable"]
IdleOps == [i \in Slots |-> "WriteEnable"]
IdleDecoded == [called |-> FALSE, op_code |-> 0, addr |-> None, ret |-> NotCalled]

(***************************************************************************)
(* Encoding: one Command value, serialized and measured                    *)
(***************************************************************************)
Init ==
    /\ cmd \in Command
    /\ frame = NotCalled
    /\ length = NotCalled
    /\ le = NotCalled
    /\ decoded = IdleDecoded
    /\ ops = IdleOps
    /\ u8s = [i \in Slots |-> NotCalled]

\* cmd.to_array()
ToArray ==
    /\ frame' = to_array(cmd)
    /\ UNCHANGED <<cmd, length, le, decoded, ops, u8s>>

\* cmd.len()
CallLen ==
    /\ length' = len(cmd)
    /\ UNCHANGED <<cmd, frame, le, decoded, ops, u8s>>

\* addr.to_le_bytes() on the address cmd carries
ToLeBytes ==
    /\ HasAddr(cmd)
    /\ le' = Ok(to_le_bytes(cmd.addr))
    /\ UNCHANGED <<cmd, frame, length, decoded, ops, u8s>>

\* Command::try_from_byte(op_code, addr)
TryFromByte ==
    /\ \E op_code \in OpCodeInputs, addr \in AddrInputs(cmd) :
          decoded' = [called |-> TRUE, op_code |-> op_code, addr |-> addr,
                      ret |-> try_from_byte(op_code, addr)]
    /\ UNCHANGED <<cmd, frame, length, le, ops, u8s>>

Next == ToArray \/ CallLen \/ ToLeBytes

Spec == Init /\ [][Next]_vars

(***************************************************************************)
(* Decoding: one Command value, serialized, and one call of try_from_byte  *)
(***************************************************************************)
NextDecode == ToArray \/ TryFromByte

SpecDecode == Init /\ [][NextDecode]_vars

(***************************************************************************)
(* Opcodes: two CommandOpCode values, each converted to its byte           *)
(***************************************************************************)
InitOpCode ==
    /\ cmd = IdleCmd
    /\ frame = NotCalled
    /\ length = NotCalled
    /\ le = NotCalled
    /\ decoded = IdleDecoded
    /\ ops \in [Slots -> CommandOpCode]
    /\ u8s = [i \in Slots |-> NotCalled]

\* u8::from(ops[i])
IntoU8(i) ==
    /\ u8s' = [u8s EXCEPT ![i] = Ok(u8_from(ops[i]))]
    /\ UNCHANGED <<cmd, frame, length, le, decoded, ops>>

NextOpCode == \E i \in Slots : IntoU8(i)

SpecOpCode == InitOpCode /\ [][NextOpCode]_vars


(***************************************************************************)
(* Properties                                                              *)
(***************************************************************************)
\* An error value returned to the caller (UnsupportedCommand, UnknownOpcode,
\* MissingAddress, UnexpectedAddress, AddressWidthMismatch).
Err(e) == [kind |-> "err", val |-> e]

\* The low 24 bits of a u32, as a number.
Low24(v) == (v.hi % 256) * 65536 + v.lo

\* The three bytes the wire format expects for v: v mod 256,
\* (v div 2^8) mod 256, (v div 2^16) mod 256.
WireBytes(v) ==
    <<Low24(v) % 256, (Low24(v) \div 256) % 256, (Low24(v) \div 65536) % 256>>

RECURSIVE BitOr(_, _)
BitOr(x, y) ==
    IF x = 0 THEN y
    ELSE IF y = 0 THEN x
    ELSE (IF x % 2 = 1 \/ y % 2 = 1 THEN 1 ELSE 0) + 2 * BitOr(x \div 2, y \div 2)

\* v | w on u32
U32Or(v, w) == U32(BitOr(v.hi, w.hi), BitOr(v.lo, w.lo))

\* The address argument of try_from_byte that belongs to command c.
AddrArgOf(c) == IF HasAddr(c) THEN Some(Left(c.addr)) ELSE None

\* Opcode bytes of the variants of Command, by shape.
AddressOpBytes == {CommandOpCodeValue[v] : v \in AddressVariants}
NoPayloadOpBytes == {CommandOpCodeValue[v] : v \in NoPayloadVariants}

\* C1: to_array of an address-carrying command returns exactly four bytes:
\* the byte of the CommandOpCode of the same name, then the address's bits
\* 0..7, 8..15 and 16..23.
C1_AddressFrame ==
    (frame.kind # "none" /\ HasAddr(cmd)) =>
        /\ frame.kind = "ok"
        /\ Len(frame.val) = 4
        /\ frame.val = <<CommandOpCodeValue[cmd.variant]>> \o WireBytes(cmd.addr)

\* C1 witness: PageProgram(0xABCDEF) serialized to [0x02, 0xEF, 0xCD, 0xAB].
C1_Witness ==
    /\ cmd.variant = "PageProgram"
    /\ cmd.addr = U32(171, 52719)
    /\ frame.kind = "ok"
    /\ frame.val = <<2, 239, 205, 171>>

\* C2: to_array of a no-payload command completes and returns the single
\* byte of the CommandOpCode of the same name.
C2_NoPayloadFrame ==
    (frame.kind # "none" /\ ~HasAddr(cmd)) =>
        /\ frame.kind = "ok"
        /\ frame.val = <<CommandOpCodeValue[cmd.variant]>>

\* C3: len fails exactly when to_array fails.
C3_SupportednessAgrees ==
    (frame.kind # "none" /\ length.kind # "none") =>
        ((length.kind = "panic") <=> (frame.kind = "panic"))

\* C4: when both to_array and len return, len is the number of bytes of the
\* frame: 1 without payload, 4 with an address.
C4_LenMatchesFrame ==
    (frame.kind = "ok" /\ length.kind = "ok") =>
        /\ length.val = Len(frame.val)
        /\ length.val = IF HasAddr(cmd) THEN 4 ELSE 1

\* C4 witness: ReadData with a high byte set, serialized and measured.
C4_Witness ==
    /\ cmd.variant = "ReadData"
    /\ cmd.addr = U32(65535, 65535)
    /\ frame.kind = "ok"
    /\ length.kind = "ok"
    /\ length.val = 4

\* C5: to_le_bytes always returns, least significant byte first, the low
\* three bytes of its u32, and returns the same for v and v | 0xFF000000.
C5_LeBytesLow24 ==
    (le.kind # "none") =>
        /\ le.kind = "ok"
        /\ le.val = WireBytes(cmd.addr)
        /\ le.val = to_le_bytes(U32Or(cmd.addr, U32(65280, 0)))

\* C5 witness: 0x12ABCDEF, whose high byte is set, encoded as EF CD AB.
C5_Witness ==
    /\ HasAddr(cmd)
    /\ cmd.addr = U32(4779, 52719)
    /\ le.kind = "ok"
    /\ le.val = <<239, 205, 171>>

\* C6: try_from_byte of the first byte of to_array(c), with c's address,
\* returns Ok(c).
C6_RoundTrip ==
    (/\ decoded.called
     /\ frame.kind = "ok"
     /\ decoded.op_code = frame.val[1]
     /\ decoded.addr = AddrArgOf(cmd)) =>
        /\ decoded.ret.kind = "ok"
        /\ decoded.ret.val = cmd

\* C7: try_from_byte answers every invalid input with a typed error:
\* UnknownOpcode, MissingAddress, UnexpectedAddress or AddressWidthMismatch.
C7_TypedErrors ==
    decoded.called =>
        /\ decoded.ret.kind # "panic"
        /\ decoded.op_code \notin (AddressOpBytes \cup NoPayloadOpBytes) =>
              decoded.ret = Err("UnknownOpcode")
        /\ (decoded.op_code \in AddressOpBytes /\ decoded.addr.tag = "None") =>
              decoded.ret = Err("MissingAddress")
        /\ (decoded.op_code \in NoPayloadOpBytes /\ decoded.addr.tag = "Some") =>
              decoded.ret = Err("UnexpectedAddress")
        /\ (/\ decoded.op_code \in AddressOpBytes
            /\ decoded.addr.tag = "Some"
            /\ decoded.addr.val.tag = "Right") =>
              decoded.ret = Err("AddressWidthMismatch")

\* C8: to_array and len of a variant without an arm return the error value
\* UnsupportedCommand; they do not abort.
C8_UnsupportedIsError ==
    /\ (frame.kind # "none" /\ to_array_match(cmd).tag = "todo") =>
          frame = Err("UnsupportedCommand")
    /\ (length.kind # "none" /\ length.kind # "ok") =>
          length = Err("UnsupportedCommand")

\* C9: CommandOpCode has 40 variants and no two distinct variants convert to
\* the same byte.
C9_OpCodesInjective ==
    /\ Cardinality(CommandOpCode) = 40
    /\ (u8s[1].kind = "ok" /\ u8s[2].kind = "ok" /\ ops[1] # ops[2]) =>
          u8s[1].val # u8s[2].val

\* C9 witness: ReleasePowerdown (0xAB) and ReadDualIO (0xBB) both converted.
C9_Witness ==
    /\ ops[1] = "ReleasePowerdown"
    /\ ops[2] = "ReadDualIO"
    /\ u8s[1] = Ok(171)
    /\ u8s[2] = Ok(187)

\* C10: among the commands to_array serializes, the first byte of the frame
\* is the same exactly for the same variant, whatever the addresses.
C10_FirstByteIdentifiesVariant ==
    frame.kind = "ok" =>
        \A c2 \in Command :
            to_array(c2).kind = "ok" =>
                ((frame.val[1] = to_array(c2).val[1]) <=> (cmd.variant = c2.variant))

\* C10 witness: FastRead serialized, with another FastRead at a different
\* address and a ReadData at the same address to compare against.
C10_Witness ==
    /\ cmd = [variant |-> "FastRead", addr |-> U32(171, 52719)]
    /\ frame.kind = "ok"
    /\ frame.val[1] = 11
    /\ to_array([variant |-> "FastRead", addr |-> U32(1, 515)]).kind = "ok"
    /\ to_array([variant |-> "ReadData", addr |-> U32(171, 52719)]).kind = "ok"

====
